---------------------------- MODULE Spec2Model ----------------------------
(***************************************************************************)
(* Model of src/summarizer/summarise.ts: the meeting-transcript summariser. *)
(*                                                                         *)
(* Tokens are abstract: a transcript is its token count tkCount and a      *)
(* chunk is the token range [lo, hi) it decodes.  A text produced by the   *)
(* generation service is a sequence of one-character fragments, and the    *)
(* abstract tokenizer counts one token per element.                        *)
(*                                                                         *)
(* JavaScript numbers that can be NaN are records [nan, v]; the overlap    *)
(* fraction is a rational [nan, num, den].  The overlap values enumerated  *)
(* below are ones for which Math.floor(size * (1 - overlap)) in IEEE       *)
(* doubles equals the exact rational floor for the sizes used.             *)
(*                                                                         *)
(* The command line is modelled from the parsed values of lines 319-321    *)
(* (ctxLimitArg, chunkSizeArg, overlapArg) on; --format and --model are    *)
(* absent, so the output format is markdown (formatOutput passes through). *)
(***************************************************************************)
EXTENDS Integers, Sequences, FiniteSets, TLC

VARIABLES
    cfg,        \* finalConfig: [ctxLimit, chunkSize, overlap]
    output,     \* args['output'] || 'minutes.md': "-" or a file name
    tkCount,    \* enc.encode(transcript).length
    sysTokens,  \* enc.encode(finalConfig.systemPrompt).length
    reachable,  \* whether the Ollama service answers during this run
    pc,         \* position of the single thread of control
    exit,       \* how the process ended: "running" while it has not
    checked,    \* result of checkOllamaRunning: "none", "up", "down"
    gen,        \* the splitTokens generator: [st, i]
    windows,    \* the windows splitTokens has yielded so far, in order
    parts,      \* main's parts: string[]
    minutes,    \* main's minutes
    phase,      \* which ask call is running: "none","direct","map","merge","call"
    retries,    \* ask's retries parameter
    attempt,    \* ask's attempt counter
    out,        \* ask's out accumulator
    streamed,   \* fragments delivered by the stream now being read
    tries,      \* ollama.generate invocations made by the running ask call
    delays,     \* setTimeout delays (ms) awaited by the running ask call
    calls,      \* log of the ask calls main has issued
    failed,     \* whether some generation attempt of this run has failed
    stdout,     \* writes to process.stdout, in order
    file        \* writes to the output file, in order

vars == <<cfg, output, tkCount, sysTokens, reachable, pc, exit, checked, gen,
          windows, parts, minutes, phase, retries, attempt, out, streamed,
          tries, delays, calls, failed, stdout, file>>

-----------------------------------------------------------------------------
(* Bounds of the model *)

MaxTokens == 3     \* main reads transcripts of 0..MaxTokens tokens
MaxWindows == 4    \* cap on the chunks main draws from a generator that never ends
MaxSplitTokens == 8   \* splitTokens alone: texts of 0..MaxSplitTokens tokens
MaxSplitWindows == 9  \* splitTokens alone: cap on the windows drawn
MaxEcho == 2       \* cap on the fragments the service streams in one run
MaxRetries == 3    \* ask is exercised alone with retries in 0..MaxRetries
MaxSysTokens == 2  \* the system prompt encodes to 1..MaxSysTokens tokens

-----------------------------------------------------------------------------
(* Program constants *)

CTX_LIMIT == 120000
CHUNK_SIZE == 60000
DEFAULT_OVERLAP == [nan |-> FALSE, num |-> 1, den |-> 10]
DEFAULT_RETRIES == 3
BASE_DELAY_MS == 2000
SEPARATOR == "===NEXT CHUNK==="

-----------------------------------------------------------------------------
(* JavaScript numbers *)

Num(n) == [nan |-> FALSE, v |-> n]
NaN == [nan |-> TRUE, v |-> 0]

Min(a, b) == IF a < b THEN a ELSE b
Max(a, b) == IF a > b THEN a ELSE b

\* Math.floor(a / b) for b > 0
Floor(a, b) == IF a >= 0 THEN a \div b ELSE -((-a + b - 1) \div b)

\* x + y, NaN when either is NaN
Plus(x, y) == IF x.nan \/ y.nan THEN NaN ELSE Num(x.v + y.v)

\* x < n for an integer n; false when x is NaN
LessThan(x, n) == ~x.nan /\ x.v < n

\* Array.prototype.slice(a, b) on an array of length n, as a range [lo, hi)
SliceIndex(n, k) == IF k < 0 THEN Max(n + k, 0) ELSE Min(k, n)
Slice(n, a, b) ==
    LET lo == SliceIndex(n, a)
        hi == SliceIndex(n, b)
    IN  [lo |-> lo, hi |-> Max(lo, hi)]

-----------------------------------------------------------------------------
(* Command line and finalConfig *)

Undefined == [kind |-> "undefined", v |-> 0]
NotANumber == [kind |-> "nan", v |-> 0]
Given(n) == [kind |-> "num", v |-> n]
Ratio(p, q) == [kind |-> "num", num |-> p, den |-> q]
UndefinedRatio == [kind |-> "undefined", num |-> 0, den |-> 1]
NotANumberRatio == [kind |-> "nan", num |-> 0, den |-> 1]

\* x || dflt for a number x: undefined, NaN and 0 are falsy
OrDefault(x, dflt) == IF x.kind = "num" /\ x.v # 0 THEN x.v ELSE dflt

\* overlapArg !== undefined ? overlapArg : DEFAULT_OVERLAP
OverlapOrDefault(x) ==
    CASE x.kind = "undefined" -> DEFAULT_OVERLAP
      [] x.kind = "nan" -> [nan |-> TRUE, num |-> 0, den |-> 1]
      [] OTHER -> [nan |-> FALSE, num |-> x.num, den |-> x.den]

finalConfig(ctxLimitArg, chunkSizeArg, overlapArg) ==
    [ctxLimit |-> OrDefault(ctxLimitArg, CTX_LIMIT),
     chunkSize |-> OrDefault(chunkSizeArg, CHUNK_SIZE),
     overlap |-> OverlapOrDefault(overlapArg)]

-----------------------------------------------------------------------------
(* splitTokens *)

\* a variant of Step that the overlap property must tell apart:
\* Math.floor(size * overlap)
StepBug(size, overlap) ==
    IF overlap.nan THEN NaN
    ELSE Num(Floor(size * overlap.num, overlap.den))

\* const step = Math.floor(size * (1 - overlap)): line 83
Step(size, overlap) ==
    IF overlap.nan THEN NaN
    ELSE Num(Floor(size * (overlap.den - overlap.num), overlap.den))

NewGenerator == [st |-> "new", i |-> Num(0)]

\* the loop test and body of "for (let i = 0; i < toks.length; i += step)"
\* entered with i = j
SplitLoop(n, size, j) ==
    IF LessThan(j, n)
    THEN [yield |-> TRUE, win |-> Slice(n, j.v, j.v + size),
          gen |-> [st |-> "loop", i |-> j]]
    ELSE [yield |-> FALSE, win |-> [lo |-> 0, hi |-> 0],
          gen |-> [st |-> "done", i |-> j]]

\* one resumption of the generator splitTokens(txt, enc, size, overlap) on a
\* text of n tokens: what it yields, if anything, and its next state
splitTokens(g, n, size, overlap) ==
    CASE g.st = "new" ->
           IF n <= size
           THEN [yield |-> TRUE, win |-> [lo |-> 0, hi |-> n],
                 gen |-> [st |-> "single", i |-> Num(0)]]
           ELSE SplitLoop(n, size, Num(0))
      [] g.st = "loop" -> SplitLoop(n, size, Plus(g.i, Step(size, overlap)))
      [] OTHER -> [yield |-> FALSE, win |-> [lo |-> 0, hi |-> 0],
                   gen |-> [st |-> "done", i |-> g.i]]

-----------------------------------------------------------------------------
(* Texts *)

Fragments == {"a", " "}

RECURSIVE TrimStart(_)
TrimStart(t) == IF t # <<>> /\ Head(t) = " " THEN TrimStart(Tail(t)) ELSE t

RECURSIVE TrimEnd(_)
TrimEnd(t) ==
    IF t # <<>> /\ t[Len(t)] = " " THEN TrimEnd(SubSeq(t, 1, Len(t) - 1)) ELSE t

\* String.prototype.trim
Trim(t) == TrimEnd(TrimStart(t))

\* parts.join('\n\n===NEXT CHUNK===\n\n')
RECURSIVE Join(_)
Join(ps) ==
    IF ps = <<>> THEN <<>>
    ELSE IF Len(ps) = 1 THEN ps[1]
    ELSE ps[1] \o <<SEPARATOR>> \o Join(Tail(ps))

\* formatOutput(minutes, 'markdown')
formatOutput(m) == m

-----------------------------------------------------------------------------
(* ask *)

\* the call main is waiting for, as the log records it
Call(kind, win, body) ==
    [kind |-> kind, lo |-> win.lo, hi |-> win.hi, body |-> body,
     status |-> "pending", complete |-> FALSE, result |-> <<>>]

\* the log entry of the running call when ask returns or throws
Settle(status, complete, text) ==
    [calls EXCEPT ![Len(calls)] =
        [@ EXCEPT !.status = status, !.complete = complete, !.result = text]]

\* ask(model, prompt, systemPrompt) is entered: lines 106-108
StartAsk(kind, win, body, budget) ==
    /\ phase' = kind
    /\ retries' = budget
    /\ attempt' = 0
    /\ out' = <<>>
    /\ streamed' = <<>>
    /\ tries' = 0
    /\ delays' = <<>>
    /\ calls' = Append(calls, Call(kind, win, body))
    /\ pc' = "ask"

\* a variant of Push that the ordering property must tell apart:
\* parts.unshift(...)
PushBug(ps, text) == <<text>> \o ps

\* parts.push(...): line 405
Push(ps, text) == Append(ps, text)

\* ask returns text to main, which goes on from the await: lines 397, 405, 413
Return(text, complete, t) ==
    /\ calls' = Settle("returned", complete, text)
    /\ tries' = t
    /\ IF phase = "map"
       THEN /\ parts' = Push(parts, text)
            /\ pc' = "map"
            /\ UNCHANGED <<minutes, exit>>
       ELSE /\ minutes' = text
            /\ pc' = IF phase = "call" THEN "exit" ELSE "write"
            /\ exit' = IF phase = "call" THEN "returned" ELSE exit
            /\ UNCHANGED parts
    /\ UNCHANGED <<cfg, output, tkCount, sysTokens, reachable, checked, gen,
                   windows, phase, retries, attempt, out, streamed, delays,
                   failed, stdout, file>>

\* a variant of RetryAgain that the retry property must tell apart:
\* attempt <= retries
RetryAgainBug(a, r) == a <= r

\* if (attempt < retries) in the catch block: line 133
RetryAgain(a, r) == a < r

\* the catch block: lines 129-140; a throw reaches main's catch handler
\* (lines 438-441), which ends the process
Catch(t) ==
    /\ attempt' = attempt + 1
    /\ tries' = t
    /\ failed' = TRUE
    /\ IF RetryAgain(attempt + 1, retries)
       THEN /\ delays' = Append(delays, (attempt + 1) * BASE_DELAY_MS)
            /\ pc' = "ask"
            /\ UNCHANGED <<calls, exit>>
       ELSE /\ calls' = Settle("threw", FALSE, <<>>)
            /\ pc' = "exit"
            /\ exit' = "genfail"
            /\ UNCHANGED delays
    /\ UNCHANGED <<cfg, output, tkCount, sysTokens, reachable, checked, gen,
                   windows, parts, minutes, phase, retries, out, streamed,
                   stdout, file>>

\* the loop test and ollama.generate: lines 110-121, and line 143 when the
\* loop ends
AskAttempt ==
    /\ pc = "ask"
    /\ IF attempt < retries
       THEN \E ok \in (IF reachable THEN BOOLEAN ELSE {FALSE}) :
              IF ok
              THEN /\ pc' = "stream"
                   /\ tries' = tries + 1
                   /\ streamed' = <<>>
                   /\ UNCHANGED <<cfg, output, tkCount, sysTokens, reachable,
                                  exit, checked, gen, windows, parts, minutes,
                                  phase, retries, attempt, out, delays, calls,
                                  failed, stdout, file>>
              ELSE Catch(tries + 1)
       ELSE Return(Trim(out), FALSE, tries)

\* one turn of "for await (const c of stream)": lines 123-126
StreamFragment ==
    /\ pc = "stream"
    /\ Len(stdout) < MaxEcho
    /\ \E c \in Fragments :
         /\ stdout' = Append(stdout, <<c>>)
         /\ out' = Append(out, c)
         /\ streamed' = Append(streamed, c)
    /\ UNCHANGED <<cfg, output, tkCount, sysTokens, reachable, pc, exit,
                   checked, gen, windows, parts, minutes, phase, retries,
                   attempt, tries, delays, calls, failed, file>>

\* the stream ends: return out.trim(), line 128
StreamEnd ==
    /\ pc = "stream"
    /\ Return(Trim(out), TRUE, tries)

\* the stream throws while it is read
StreamFail ==
    /\ pc = "stream"
    /\ Catch(tries)

-----------------------------------------------------------------------------
(* main *)

\* a variant of checkOllamaRunning that the fail-fast property must tell
\* apart: the catch block returns true as well
AlwaysRunning(r) == TRUE

\* checkOllamaRunning: true when ollama.list() answers, lines 251-258
checkOllamaRunning(r) == r

\* a variant of DirectMode that the one-call property must tell apart:
\* off by one
DirectModeBug(n, s, limit) == n + s + 1 < limit

\* if (tkCount + systemPromptTokens < finalConfig.ctxLimit): line 395
DirectMode(n, s, limit) == n + s < limit

\* lines 345-349
CheckService ==
    /\ pc = "main"
    /\ checked' = IF reachable THEN "up" ELSE "down"
    /\ IF checkOllamaRunning(reachable)
       THEN pc' = "read" /\ exit' = exit
       ELSE pc' = "exit" /\ exit' = "unreachable"
    /\ UNCHANGED <<cfg, output, tkCount, sysTokens, reachable, gen, windows,
                   parts, minutes, phase, retries, attempt, out, streamed,
                   tries, delays, calls, failed, stdout, file>>

\* lines 372-401: the transcript is read and counted, and main either asks
\* for the whole transcript or enters the chunk loop
ReadAndDecide ==
    /\ pc = "read"
    /\ \E ok \in BOOLEAN :
         IF ~ok
         THEN /\ pc' = "exit"
              /\ exit' = "readfail"
              /\ UNCHANGED <<phase, retries, attempt, out, streamed, tries,
                             delays, calls>>
         ELSE IF DirectMode(tkCount, sysTokens, cfg.ctxLimit)
         THEN /\ StartAsk("direct", [lo |-> 0, hi |-> tkCount], <<>>,
                          DEFAULT_RETRIES)
              /\ exit' = exit
         ELSE /\ pc' = "map"
              /\ UNCHANGED <<exit, phase, retries, attempt, out, streamed,
                             tries, delays, calls>>
    /\ UNCHANGED <<cfg, output, tkCount, sysTokens, reachable, checked, gen,
                   windows, parts, minutes, failed, stdout, file>>

\* lines 403-424: the for-of loop resumes the generator; a yielded chunk is
\* sent to ask, and when the generator is done the merge call is made
NextChunk ==
    /\ pc = "map"
    /\ LET r == splitTokens(gen, tkCount, cfg.chunkSize, cfg.overlap)
       IN  /\ r.yield => Len(windows) < MaxWindows
           /\ gen' = r.gen
           /\ IF r.yield
              THEN /\ windows' = Append(windows, r.win)
                   /\ StartAsk("map", r.win, <<>>, DEFAULT_RETRIES)
              ELSE /\ windows' = windows
                   /\ StartAsk("merge", [lo |-> 0, hi |-> 0], Join(parts),
                               DEFAULT_RETRIES)
    /\ UNCHANGED <<cfg, output, tkCount, sysTokens, reachable, exit, checked,
                   parts, minutes, failed, stdout, file>>

\* lines 427-437
WriteOutput ==
    /\ pc = "write"
    /\ IF output # "-"
       THEN /\ file' = Append(file, formatOutput(minutes) \o <<"\n">>)
            /\ stdout' = stdout
       ELSE /\ stdout' = Append(stdout, formatOutput(minutes) \o <<"\n">>)
            /\ file' = file
    /\ pc' = "exit"
    /\ exit' = "ok"
    /\ UNCHANGED <<cfg, output, tkCount, sysTokens, reachable, checked, gen,
                   windows, parts, minutes, phase, retries, attempt, out,
                   streamed, tries, delays, calls, failed>>

-----------------------------------------------------------------------------
(* The inputs enumerated *)

CtxLimitArgs == {Undefined, NotANumber, Given(0), Given(3), Given(5)}
ChunkSizeArgs == {Undefined, Given(0), Given(1), Given(2)}
OverlapArgs == {UndefinedRatio, Ratio(0, 1), Ratio(1, 2), Ratio(1, 1)}
Outputs == {"-", "minutes.md"}

SplitChunkSizeArgs ==
    {Undefined, NotANumber, Given(0), Given(-2), Given(1), Given(2), Given(3),
     Given(4)}
SplitOverlapArgs ==
    {UndefinedRatio, NotANumberRatio, Ratio(-1, 2), Ratio(0, 1), Ratio(1, 4),
     Ratio(1, 2), Ratio(3, 4), Ratio(1, 1), Ratio(3, 2)}

\* the state shared by every entry point before anything has run
Fresh ==
    /\ exit = "running"
    /\ checked = "none"
    /\ gen = NewGenerator
    /\ windows = <<>>
    /\ parts = <<>>
    /\ minutes = <<>>
    /\ attempt = 0
    /\ out = <<>>
    /\ streamed = <<>>
    /\ tries = 0
    /\ delays = <<>>
    /\ failed = FALSE
    /\ stdout = <<>>
    /\ file = <<>>

-----------------------------------------------------------------------------
(* The program: main run from the command line *)

Init ==
    /\ cfg \in {finalConfig(c, s, o) :
                  c \in CtxLimitArgs, s \in ChunkSizeArgs, o \in OverlapArgs}
    /\ output \in Outputs
    /\ tkCount \in 0..MaxTokens
    /\ sysTokens \in 1..MaxSysTokens
    /\ reachable \in BOOLEAN
    /\ pc = "main"
    /\ phase = "none"
    /\ retries = DEFAULT_RETRIES
    /\ calls = <<>>
    /\ Fresh

Next ==
    \/ CheckService
    \/ ReadAndDecide
    \/ NextChunk
    \/ AskAttempt
    \/ StreamFragment
    \/ StreamEnd
    \/ StreamFail
    \/ WriteOutput

Spec == Init /\ [][Next]_vars

-----------------------------------------------------------------------------
(* ask called on its own, with every retry budget *)

InitAsk ==
    /\ cfg = finalConfig(Undefined, Undefined, UndefinedRatio)
    /\ output = "minutes.md"
    /\ tkCount = 0
    /\ sysTokens = 1
    /\ reachable \in BOOLEAN
    /\ pc = "ask"
    /\ phase = "call"
    /\ retries \in 0..MaxRetries
    /\ calls = <<Call("call", [lo |-> 0, hi |-> 0], <<>>)>>
    /\ Fresh

NextAsk ==
    \/ AskAttempt
    \/ StreamFragment
    \/ StreamEnd
    \/ StreamFail

SpecAsk == InitAsk /\ [][NextAsk]_vars

-----------------------------------------------------------------------------
(* splitTokens drained on its own, with every chunk size and overlap *)

\* for (const chunk of splitTokens(transcript, enc, chunkSize, overlap))
SplitNext ==
    /\ pc = "split"
    /\ LET r == splitTokens(gen, tkCount, cfg.chunkSize, cfg.overlap)
       IN  /\ r.yield => Len(windows) < MaxSplitWindows
           /\ gen' = r.gen
           /\ windows' = IF r.yield THEN Append(windows, r.win) ELSE windows
           /\ pc' = IF r.yield THEN pc ELSE "exit"
           /\ exit' = IF r.yield THEN exit ELSE "ok"
    /\ UNCHANGED <<cfg, output, tkCount, sysTokens, reachable, checked, parts,
                   minutes, phase, retries, attempt, out, streamed, tries,
                   delays, calls, failed, stdout, file>>

InitSplit ==
    /\ cfg \in {finalConfig(Undefined, s, o) :
                  s \in SplitChunkSizeArgs, o \in SplitOverlapArgs}
    /\ output = "minutes.md"
    /\ tkCount \in 0..MaxSplitTokens
    /\ sysTokens = 1
    /\ reachable = TRUE
    /\ pc = "split"
    /\ phase = "none"
    /\ retries = DEFAULT_RETRIES
    /\ calls = <<>>
    /\ Fresh

NextSplit == SplitNext

SpecSplit == InitSplit /\ [][NextSplit]_vars

-----------------------------------------------------------------------------
(* ask and main together: main as run from the command line, and ask called *)
(* on its own with every retry budget                                       *)

InitRetry == Init \/ InitAsk

SpecRetry == InitRetry /\ [][Next]_vars

-----------------------------------------------------------------------------
(* Vocabulary of the properties *)

Abs(n) == IF n < 0 THEN -n ELSE n

\* the output sink: the output file, or standard output when output is '-'
Sink == IF output = "-" THEN stdout ELSE file

\* 0 <= f < 1
ValidOverlap(o) == ~o.nan /\ 0 <= o.num /\ o.num < o.den

\* the number of token indices two windows have in common
Shared(a, b) == Max(0, Min(a.hi, b.hi) - Max(a.lo, b.lo))

\* the results of the first k calls of the log, in order
Results(k) == [j \in 1..k |-> calls[j].result]

\* a prompt cut at its separators
RECURSIVE Pieces(_)
Pieces(t) ==
    IF t = <<>> THEN << <<>> >>
    ELSE IF Head(t) = SEPARATOR THEN << <<>> >> \o Pieces(Tail(t))
    ELSE LET r == Pieces(Tail(t))
         IN  << <<Head(t)>> \o r[1] >> \o Tail(r)

\* every call but the last one has returned
Sequential == \A k \in 1..(Len(calls) - 1) : calls[k].status = "returned"

\* a lower bound on the tokens of a request: its transcript content, plus the
\* system prompt as main counts it (direct) or an instruction of at least one
\* token (map, merge)
RequestTokens(c) ==
    IF c.kind = "direct" THEN (c.hi - c.lo) + sysTokens
    ELSE IF c.kind = "map" THEN (c.hi - c.lo) + 1
    ELSE Len(c.body) + 1

-----------------------------------------------------------------------------
(* C1 *)

\* C1 as stated: a successful run on a transcript whose token count alone is
\* below ctxLimit has issued exactly one ask call.
C1_TranscriptBelowLimit ==
    (exit = "ok" /\ tkCount < cfg.ctxLimit) => Len(calls) = 1

\* C1 amended: when the transcript's token count plus the system prompt's
\* token count is below ctxLimit, the run never issues more than one ask
\* call, that call is the direct one over the whole transcript, a successful
\* run has issued exactly one, and with no failed attempt it made exactly one
\* generation request.
C1_SumBelowLimit_OneCall ==
    (tkCount + sysTokens < cfg.ctxLimit) =>
        /\ Len(calls) <= 1
        /\ windows = <<>>
        /\ \A k \in 1..Len(calls) :
             /\ calls[k].kind = "direct"
             /\ calls[k].lo = 0 /\ calls[k].hi = tkCount
        /\ exit = "ok" => Len(calls) = 1 /\ calls[1].status = "returned"
        /\ (exit = "ok" /\ ~failed) => tries = 1

C1_Witness ==
    /\ exit = "ok"
    /\ ~failed
    /\ cfg.ctxLimit # CTX_LIMIT
    /\ tkCount + sysTokens = cfg.ctxLimit - 1
    /\ Len(calls) = 1
    /\ calls[1].kind = "direct"

-----------------------------------------------------------------------------
(* C2 *)

\* C2: calls are strictly sequential (a call starts only after every earlier
\* one returned); the merge call is issued only when the chunker is done and
\* every map call has returned; and a successful chunked run over K windows
\* has issued exactly K + 1 calls: map call k over window k, in window order,
\* then one merge call whose prompt is the K partial summaries in window
\* order joined by the separator.  With no failed attempt each call made one
\* generation request.
C2_ChunkedCalls ==
    /\ Sequential
    /\ ~failed => tries <= 1
    /\ \A k \in 1..Len(calls) :
         calls[k].kind = "merge" =>
            /\ k = Len(windows) + 1
            /\ gen.st = "done"
            /\ Len(parts) = Len(windows)
    /\ (exit = "ok" /\ calls[1].kind # "direct") =>
         LET K == Len(windows)
         IN  /\ Len(calls) = K + 1
             /\ \A k \in 1..K :
                  /\ calls[k].kind = "map"
                  /\ calls[k].lo = windows[k].lo
                  /\ calls[k].hi = windows[k].hi
                  /\ calls[k].status = "returned"
             /\ calls[K + 1].kind = "merge"
             /\ calls[K + 1].status = "returned"
             /\ calls[K + 1].body = Join(Results(K))
             /\ K >= 1 => Pieces(calls[K + 1].body) = Results(K)

C2_Witness ==
    /\ exit = "ok"
    /\ ~failed
    /\ Len(windows) = 3
    /\ Len(calls) = 4
    /\ calls[1].result # calls[2].result
    /\ calls[4].kind = "merge"

-----------------------------------------------------------------------------
(* C3 *)

\* C3: an ask call with retry budget R >= 1 makes at most R generation
\* attempts; failed attempt k < R is followed by a delay of k times the base
\* delay and the R-th failure by none; once R attempts have failed the error
\* has reached main's handler and the process has ended in failure with
\* nothing more to run: no call is issued again, the output file is
\* untouched, and a failed merge call was the single call after one map call
\* per window.
C3_RetryThenFail ==
    /\ tries <= Max(retries, 0)
    /\ retries >= 1 =>
         /\ Len(delays) = Min(attempt, retries - 1)
         /\ \A k \in 1..Len(delays) : delays[k] = k * BASE_DELAY_MS
         /\ attempt >= retries =>
              /\ pc = "exit"
              /\ exit = "genfail"
              /\ calls[Len(calls)].status = "threw"
    /\ exit = "genfail" =>
         /\ attempt = retries
         /\ tries = retries
         /\ ~ENABLED Next
         /\ Sequential
         /\ file = <<>>
         /\ Len(calls) <= Len(windows) + 1
         /\ phase = "merge" =>
              /\ Len(calls) = Len(windows) + 1
              /\ Len(parts) = Len(windows)
              /\ minutes = <<>>

C3_Witness ==
    /\ exit = "genfail"
    /\ phase = "merge"
    /\ Len(windows) >= 2
    /\ \A k \in 1..Len(windows) : calls[k].status = "returned"
    /\ delays = <<BASE_DELAY_MS, 2 * BASE_DELAY_MS>>
    /\ tries = DEFAULT_RETRIES

-----------------------------------------------------------------------------
(* C4 *)

\* C4: whenever ask has returned a text, a stream of that call ran to
\* completion and the text is the trimmed concatenation of exactly that
\* stream's fragments.
C4_ReturnsOneCompleteStream ==
    exit = "returned" =>
        /\ calls[1].complete
        /\ calls[1].result = Trim(streamed)

\* The part of C4 that concerns budgets R >= 1 alone: the text ask returns
\* holds no fragment of an attempt that failed.
C4_NoFragmentOfFailedAttempt ==
    (exit = "returned" /\ retries >= 1) => calls[1].result = Trim(streamed)

-----------------------------------------------------------------------------
(* C5 *)

\* C5: a run that found the service unreachable has ended in the
\* ServiceUnreachable failure having issued no ask call, made no generation
\* attempt, awaited no backoff delay and written nothing to standard output
\* or the output file; a run against an unreachable service gets no further
\* than the check; and no ask call is ever issued before the check has found
\* the service up.
C5_UnreachableFailsFast ==
    /\ exit = "unreachable" =>
         /\ ~reachable
         /\ checked = "down"
         /\ pc = "exit"
         /\ calls = <<>>
         /\ tries = 0
         /\ attempt = 0
         /\ delays = <<>>
         /\ stdout = <<>>
         /\ file = <<>>
    /\ (~reachable /\ pc # "main") => exit = "unreachable"
    /\ (calls # <<>> \/ tries > 0) => checked = "up"

C5_Witness ==
    /\ exit = "unreachable"
    /\ ~reachable
    /\ checked = "down"
    /\ calls = <<>>

-----------------------------------------------------------------------------
(* C6 *)

\* C6: a run that ended because a generation call failed for good has
\* written nothing to the output sink; the sink is written at most once, and
\* only by the successful end of the run, with the final minutes.
C6_NoPartialOutput ==
    /\ exit = "genfail" => Sink = <<>>
    /\ Len(Sink) <= 1
    /\ Sink # <<>> => (exit = "ok" /\ Sink[1] = formatOutput(minutes) \o <<"\n">>)

-----------------------------------------------------------------------------
(* C7 *)

\* C7: no chunk is produced under a configuration with overlap >= 1 or chunk
\* size <= 0; whenever splitTokens loops over several windows its step is a
\* number >= 1; and the windows it yields number at most one per token.
C7_StepAtLeastOne ==
    /\ windows # <<>> =>
         /\ cfg.chunkSize >= 1
         /\ ~cfg.overlap.nan /\ cfg.overlap.num < cfg.overlap.den
    /\ gen.st = "loop" =>
         LET step == Step(cfg.chunkSize, cfg.overlap)
         IN  ~step.nan /\ step.v >= 1
    /\ Len(windows) <= Max(tkCount, 1)

-----------------------------------------------------------------------------
(* C8 *)

\* C8: for every overlap value and every chunk size >= 1, when splitTokens
\* is done the windows it yielded cover every token index of [0, N), and no
\* window starts after the end of the one before it.
C8_WindowsCover ==
    (exit = "ok" /\ cfg.chunkSize >= 1) =>
        /\ \A t \in 0..(tkCount - 1) :
             \E k \in 1..Len(windows) :
                windows[k].lo <= t /\ t < windows[k].hi
        /\ \A k \in 1..(Len(windows) - 1) : windows[k + 1].lo <= windows[k].hi

-----------------------------------------------------------------------------
(* C9 *)

\* C9 as stated: for N > S >= 1 and 0 <= f < 1, every pair of consecutive
\* windows, the last pair included, shares floor(S*f) tokens give or take 1.
C9_EveryPairOverlaps ==
    (ValidOverlap(cfg.overlap) /\ cfg.chunkSize >= 1
        /\ tkCount > cfg.chunkSize) =>
        \A k \in 1..(Len(windows) - 1) :
           Abs(Shared(windows[k], windows[k + 1])
               - Floor(cfg.chunkSize * cfg.overlap.num, cfg.overlap.den)) <= 1

\* C9 amended: for N > S and 0 <= f < 1, every pair of consecutive windows
\* whose earlier window holds a full S tokens shares floor(S*f) tokens give
\* or take 1.
C9_FullWindowsOverlap ==
    (ValidOverlap(cfg.overlap) /\ tkCount > cfg.chunkSize) =>
        \A k \in 1..(Len(windows) - 1) :
           (windows[k].hi - windows[k].lo = cfg.chunkSize) =>
              Abs(Shared(windows[k], windows[k + 1])
                  - Floor(cfg.chunkSize * cfg.overlap.num, cfg.overlap.den)) <= 1

C9_Witness ==
    /\ exit = "ok"
    /\ ValidOverlap(cfg.overlap)
    /\ cfg.overlap.num > 0
    /\ cfg.chunkSize >= 3
    /\ Len(windows) >= 3
    /\ windows[2].hi - windows[2].lo = cfg.chunkSize
    /\ Shared(windows[1], windows[2]) >= 1
    /\ windows[Len(windows)].hi - windows[Len(windows)].lo < cfg.chunkSize

-----------------------------------------------------------------------------
(* C10 *)

\* C10: every request main has issued holds fewer tokens than ctxLimit.
C10_RequestsWithinLimit ==
    \A k \in 1..Len(calls) : RequestTokens(calls[k]) < cfg.ctxLimit

=============================================================================
